---- MODULE Spec2Model ----
(***************************************************************************)
(* Model of the photo print layout page (src/src/app/page.tsx, first       *)
(* component: the free-rectangle variant of calculateLayout).              *)
(*                                                                         *)
(* Units.  Lengths given in inches (paper size, margin, gap, target        *)
(* diagonal) are held in tenths of an inch; multiplying by RENDER_DPI, as  *)
(* the code does, then gives tenths of a pixel.  JavaScript numbers are    *)
(* modelled in fixed point: the aspect ratio and the intermediate inch     *)
(* values of the size computation carry Precision fractional units.        *)
(***************************************************************************)
EXTENDS Integers, Sequences, FiniteSets

\* ------------------------------------------------------------------ bounds
MaxImages == 3
MaxPasses == 2
Precision == 1200
MaxBatch == 2
MaxFailures == 1

\* ------------------------------------------------------- program constants
RENDER_DPI == 96
PAPER_WIDTH_IN == 85
PAPER_HEIGHT_IN == 110
DEFAULT_DIAGONAL_IN == 50
DEFAULT_MARGIN_IN == 1
DEFAULT_GAP_IN == 0

\* ------------------------------------------------------------ input values
\* originalWidthPx, originalHeightPx of the files a user may upload
OrigDims == { <<4, 3>>, <<3, 4>>, <<4, 1>>, <<1, 1>> }
\* targetPrintDiagonalIn: <<>> is null, <<d>> a per-image override
DiagonalOverrides == { <<>>, <<0>>, <<100>> }
GlobalDiagonals == { 0, DEFAULT_DIAGONAL_IN }
\* the default, the slider's maximum (1 in), and one leaving no usable width
MarginValues == { DEFAULT_MARGIN_IN, 10, 43 }
GapValues == { DEFAULT_GAP_IN, 5 }

VARIABLES
  uploadedImages,      \* useState<UploadedImage[]>
  processedImages,     \* useMemo over uploadedImages, globalTargetSizeIn
  globalTargetSizeIn,  \* useState<number>
  marginIn,            \* useState<number>
  gapIn,               \* useState<number>
  pageLayouts,         \* useState<PrintPageLayout[]>: the committed layout
  newPageLayouts,      \* calculateLayout local: pages under construction
  pageEmptySpaces,     \* calculateLayout local: free rectangles per page
  imgIdx,              \* position of the forEach over processedImages
  pc,                  \* "idle" | "loop" | "done"
  consoleErrors,       \* what the pass reported through console.error
  passCount,           \* number of calculateLayout calls started
  prevPageLayouts,     \* pageLayouts as committed by the previous call
  timers,              \* pending setTimeout callbacks of the debounce effect
  isLoading,           \* useState<boolean>
  isConverting,        \* useState<boolean>
  batches              \* upload batches started and not yet settled

vars == << uploadedImages, processedImages, globalTargetSizeIn, marginIn,
           gapIn, pageLayouts, newPageLayouts, pageEmptySpaces, imgIdx, pc,
           consoleErrors, passCount, prevPageLayouts, timers, isLoading,
           isConverting, batches >>

\* what the layout pass and the image list handlers leave alone
Background == << timers, isLoading, isConverting, batches >>

\* ------------------------------------------------------------- arithmetic
Abs(n) == IF n < 0 THEN -n ELSE n

RECURSIVE SqrtSearch(_, _, _)
SqrtSearch(n, lo, hi) ==
  IF lo >= hi THEN lo
  ELSE LET mid == (lo + hi + 1) \div 2
       IN IF mid * mid <= n THEN SqrtSearch(n, mid, hi)
          ELSE SqrtSearch(n, lo, mid - 1)

\* Math.sqrt on fixed-point values: the largest r with r * r <= n
Sqrt(n) == SqrtSearch(n, 0, 32768)

\* a ?? b
Coalesce(opt, default) == IF opt = <<>> THEN default ELSE opt[1]

\* -------------------------------------------------------- processedImages
UploadedImage(dims, diag) ==
  [ originalWidthPx |-> dims[1], originalHeightPx |-> dims[2],
    targetPrintDiagonalIn |-> diag ]

OriginalArea(img) == img.originalWidthPx * img.originalHeightPx

TargetDiagonalIn(img) == Coalesce(img.targetPrintDiagonalIn, globalTargetSizeIn)

AspectRatio(img) == (img.originalHeightPx * Precision) \div img.originalWidthPx

PrintWidthInBad(img) ==
  (TargetDiagonalIn(img) * Precision * Precision)
     \div Sqrt(Precision * Precision + AspectRatio(img) * Precision)

PrintWidthIn(img) ==
  (TargetDiagonalIn(img) * Precision * Precision)
     \div Sqrt(Precision * Precision + AspectRatio(img) * AspectRatio(img))

PrintHeightIn(img) == (AspectRatio(img) * PrintWidthIn(img)) \div Precision

ProcessedImage(img, id) ==
  IF TargetDiagonalIn(img) <= 0
  THEN [ id |-> id, printWidthPx |-> 0, printHeightPx |-> 0 ]
  ELSE [ id |-> id,
         printWidthPx  |-> (PrintWidthIn(img) * RENDER_DPI) \div Precision,
         printHeightPx |-> (PrintHeightIn(img) * RENDER_DPI) \div Precision ]

ProcessedImagesOf(images) ==
  [ i \in 1..Len(images) |-> ProcessedImage(images[i], i) ]

\* --------------------------------------------- calculateLayout: geometry
usablePageWidthPx == (PAPER_WIDTH_IN - 2 * marginIn) * RENDER_DPI
usablePageHeightPx == (PAPER_HEIGHT_IN - 2 * marginIn) * RENDER_DPI
spacingPx == gapIn * RENDER_DPI

DegenerateUsableArea == usablePageWidthPx <= 0 \/ usablePageHeightPx <= 0

FullPageSpaceNoMargin ==
  [ x |-> 0, y |-> 0, w |-> PAPER_WIDTH_IN * RENDER_DPI,
    h |-> PAPER_HEIGHT_IN * RENDER_DPI ]

FullPageSpaceInches ==
  [ x |-> marginIn, y |-> marginIn,
    w |-> usablePageWidthPx, h |-> usablePageHeightPx ]

\* the single free rectangle addNewPage gives a page
FullPageSpace ==
  [ x |-> marginIn * RENDER_DPI, y |-> marginIn * RENDER_DPI,
    w |-> usablePageWidthPx, h |-> usablePageHeightPx ]

EmptyPage == [ photos |-> <<>> ]

AddNewPageAtFront(st) ==
  [ st EXCEPT !.layouts = << EmptyPage >> \o @,
              !.spaces = << << FullPageSpace >> >> \o @ ]

\* the pass's working state: pages, free rectangles per page, console.error log
AddNewPage(st) ==
  [ st EXCEPT !.layouts = Append(@, EmptyPage),
              !.spaces = Append(@, << FullPageSpace >>) ]

NoPagesStale == [ layouts |-> newPageLayouts, spaces |-> pageEmptySpaces,
                  errors |-> consoleErrors ]

\* const newPageLayouts = []; const pageEmptySpaces = []
NoPages == [ layouts |-> <<>>, spaces |-> <<>>, errors |-> consoleErrors ]

SkipsZeroOnlyNegative(img) == img.printWidthPx < 0 \/ img.printHeightPx < 0

\* !img.printWidthPx || !img.printHeightPx || img.printWidthPx <= 0 || ...
IsSkipped(img) ==
  \/ img.printWidthPx = 0
  \/ img.printHeightPx = 0
  \/ img.printWidthPx <= 0
  \/ img.printHeightPx <= 0

FitsWithGap(img, space) ==
  img.printWidthPx + spacingPx <= space.w /\ img.printHeightPx + spacingPx <= space.h

\* img.printWidthPx <= space.w && img.printHeightPx <= space.h
Fits(img, space) == img.printWidthPx <= space.w /\ img.printHeightPx <= space.h

RECURSIVE SearchFromLastWins(_, _, _, _)
SearchFromLastWins(spaces, img, pos, bestFit) ==
  LET pageIdx == pos[1]
      spaceIdx == pos[2]
  IN IF pageIdx > Len(spaces) THEN bestFit
     ELSE IF spaceIdx > Len(spaces[pageIdx])
          THEN SearchFromLastWins(spaces, img, << pageIdx + 1, 1 >>, bestFit)
          ELSE LET space == spaces[pageIdx][spaceIdx]
                   score == space.w * space.h
                   better == Fits(img, space)
                             /\ (bestFit = <<>> \/ score <= bestFit[1].score)
               IN SearchFromLastWins(spaces, img, << pageIdx, spaceIdx + 1 >>,
                     IF better
                     THEN << [ pageIdx |-> pageIdx, spaceIdx |-> spaceIdx,
                               score |-> score ] >>
                     ELSE bestFit)

\* the search loop over pages and spaces; bestFit is <<>> (null) or <<record>>
RECURSIVE SearchFrom(_, _, _, _)
SearchFrom(spaces, img, pos, bestFit) ==
  LET pageIdx == pos[1]
      spaceIdx == pos[2]
  IN IF pageIdx > Len(spaces) THEN bestFit
     ELSE IF spaceIdx > Len(spaces[pageIdx])
          THEN SearchFrom(spaces, img, << pageIdx + 1, 1 >>, bestFit)
          ELSE LET space == spaces[pageIdx][spaceIdx]
                   score == space.w * space.h
                   better == Fits(img, space)
                             /\ (bestFit = <<>> \/ score < bestFit[1].score)
               IN SearchFrom(spaces, img, << pageIdx, spaceIdx + 1 >>,
                     IF better
                     THEN << [ pageIdx |-> pageIdx, spaceIdx |-> spaceIdx,
                               score |-> score ] >>
                     ELSE bestFit)

FindBestFitSkippingFirstPage(spaces, img) ==
  SearchFrom(spaces, img, << 2, 1 >>, <<>>)

FindBestFit(spaces, img) == SearchFrom(spaces, img, << 1, 1 >>, <<>>)

RequiredWidthNoGap(img) == img.printWidthPx

RequiredWidth(img) == img.printWidthPx + spacingPx
RequiredHeight(img) == img.printHeightPx + spacingPx

SpaceBelowPhotoWidth(space, img) ==
  IF space.h > RequiredHeight(img)
  THEN << [ x |-> space.x, y |-> space.y + RequiredHeight(img),
            w |-> img.printWidthPx, h |-> space.h - RequiredHeight(img) ] >>
  ELSE <<>>

SpaceBelow(space, img) ==
  IF space.h > RequiredHeight(img)
  THEN << [ x |-> space.x, y |-> space.y + RequiredHeight(img),
            w |-> space.w, h |-> space.h - RequiredHeight(img) ] >>
  ELSE <<>>

SpaceRightFullHeight(space, img) ==
  IF space.w > RequiredWidth(img)
  THEN << [ x |-> space.x + RequiredWidth(img), y |-> space.y,
            w |-> space.w - RequiredWidth(img), h |-> space.h ] >>
  ELSE <<>>

SpaceRight(space, img) ==
  IF space.w > RequiredWidth(img)
  THEN << [ x |-> space.x + RequiredWidth(img), y |-> space.y,
            w |-> space.w - RequiredWidth(img), h |-> img.printHeightPx ] >>
  ELSE <<>>

\* newSpaces: R1 (space below), then R2 (space to the right of the photo)
NewSpaces(space, img) == SpaceBelow(space, img) \o SpaceRight(space, img)

SpliceAtEnd(seq, idx, new) ==
  SubSeq(seq, 1, idx - 1) \o SubSeq(seq, idx + 1, Len(seq)) \o new

\* spaces.splice(spaceIdx, 1, ...newSpaces)
Splice(seq, idx, new) ==
  SubSeq(seq, 1, idx - 1) \o new \o SubSeq(seq, idx + 1, Len(seq))

\* { ...img, printXPx: space.x, printYPx: space.y }: no isRotated is set
PlacedPhoto(img, space) ==
  [ id |-> img.id, printWidthPx |-> img.printWidthPx,
    printHeightPx |-> img.printHeightPx,
    printXPx |-> space.x, printYPx |-> space.y ]

PlaceInBestFitUnshift(st, img, bestFit) ==
  LET pageIdx == bestFit.pageIdx
      spaceIdx == bestFit.spaceIdx
      space == st.spaces[pageIdx][spaceIdx]
  IN [ st EXCEPT
         !.layouts[pageIdx].photos = << PlacedPhoto(img, space) >> \o @,
         !.spaces[pageIdx] = Splice(@, spaceIdx, NewSpaces(space, img)) ]

\* if (bestFit) { ... }: push the photo, split the space
PlaceInBestFit(st, img, bestFit) ==
  LET pageIdx == bestFit.pageIdx
      spaceIdx == bestFit.spaceIdx
  IN IF pageIdx > Len(st.spaces) \/ spaceIdx > Len(st.spaces[pageIdx])
     THEN [ st EXCEPT !.errors = Append(@, "Invalid space index") ]
     ELSE IF pageIdx > Len(st.layouts)
     THEN [ st EXCEPT !.errors = Append(@, "Layout not found") ]
     ELSE LET space == st.spaces[pageIdx][spaceIdx]
          IN [ st EXCEPT
                 !.layouts[pageIdx].photos = Append(@, PlacedPhoto(img, space)),
                 !.spaces[pageIdx] = Splice(@, spaceIdx, NewSpaces(space, img)) ]

PlaceOnNewPageDiscarding(st, img) ==
  IF Fits(img, FullPageSpace)
  THEN LET added == AddNewPage(st)
           newPageIdx == Len(added.layouts)
       IN [ added EXCEPT
              !.layouts[newPageIdx].photos =
                  Append(@, PlacedPhoto(img, FullPageSpace)),
              !.spaces[newPageIdx] = Splice(@, 1, NewSpaces(FullPageSpace, img)) ]
  ELSE [ st EXCEPT !.layouts = SubSeq(@, 1, Len(@) - 1),
                   !.spaces = SubSeq(@, 1, Len(@) - 1) ]

\* if (!placed) { addNewPage(); ... }: retry on the fresh page, else nothing
PlaceOnNewPage(st, img) ==
  LET added == AddNewPage(st)
      newPageIdx == Len(added.layouts)
      newPageSpaces == added.spaces[newPageIdx]
  IN IF Len(newPageSpaces) = 0
     THEN [ added EXCEPT
              !.errors = Append(@, "Failed to create a new page correctly.") ]
     ELSE LET firstSpace == newPageSpaces[1]
          IN IF Fits(img, firstSpace)
             THEN [ added EXCEPT
                      !.layouts[newPageIdx].photos =
                          Append(@, PlacedPhoto(img, firstSpace)),
                      !.spaces[newPageIdx] =
                          Splice(@, 1, NewSpaces(firstSpace, img)) ]
             ELSE added

\* one iteration of processedImages.forEach
ProcessImage(st, img) ==
  IF IsSkipped(img) THEN st
  ELSE LET bestFit == FindBestFit(st.spaces, img)
       IN IF bestFit # <<>> THEN PlaceInBestFit(st, img, bestFit[1])
          ELSE PlaceOnNewPage(st, img)

RECURSIVE RunLoop(_, _, _)
RunLoop(st, imgs, i) ==
  IF i > Len(imgs) THEN st ELSE RunLoop(ProcessImage(st, imgs[i]), imgs, i + 1)

\* setPageLayouts([]) for no images; setPageLayouts([{ photos: [] }]) when the
\* margin leaves no usable area
EmptyInputLayout == <<>>
DegenerateLayout == << EmptyPage >>

\* the layout calculateLayout commits for a list of processed images
LayoutOf(imgs) ==
  IF Len(imgs) = 0 THEN EmptyInputLayout
  ELSE IF DegenerateUsableArea THEN DegenerateLayout
  ELSE RunLoop(AddNewPage(NoPages), imgs, 1).layouts

\* ------------------------------------------------------------------ state
\* the values the sliders can commit: diagonal 1..10 in, margin and gap 0..1 in
WithinSliderRange ==
  /\ globalTargetSizeIn \in 10..100
  /\ marginIn \in 0..10
  /\ gapIn \in 0..10
  /\ \A i \in 1..Len(uploadedImages) :
       \/ uploadedImages[i].targetPrintDiagonalIn = <<>>
       \/ uploadedImages[i].targetPrintDiagonalIn[1] \in 10..100

SortedByArea(images) ==
  \A i \in 1..(Len(images) - 1) :
     OriginalArea(images[i]) >= OriginalArea(images[i + 1])

ImageKinds == { UploadedImage(d, o) : d \in OrigDims, o \in DiagonalOverrides }

\* handleImageUpload and processFiles keep uploadedImages sorted by
\* descending original pixel area
ImageLists ==
  { s \in UNION { [ 1..n -> ImageKinds ] : n \in 0..MaxImages } : SortedByArea(s) }

Init ==
  /\ uploadedImages \in ImageLists
  /\ globalTargetSizeIn \in GlobalDiagonals
  /\ processedImages = ProcessedImagesOf(uploadedImages)
  /\ marginIn \in MarginValues
  /\ gapIn \in GapValues
  /\ pageLayouts = <<>>
  /\ newPageLayouts = <<>>
  /\ pageEmptySpaces = <<>>
  /\ imgIdx = 0
  /\ pc = "idle"
  /\ consoleErrors = <<>>
  /\ passCount = 0
  /\ prevPageLayouts = <<>>
  /\ timers = <<>>
  /\ isLoading = FALSE
  /\ isConverting = FALSE
  /\ batches = <<>>

Inputs ==
  << uploadedImages, processedImages, globalTargetSizeIn, marginIn, gapIn >>

PassState == [ layouts |-> newPageLayouts, spaces |-> pageEmptySpaces,
               errors |-> consoleErrors ]

SetPassState(st) ==
  /\ newPageLayouts' = st.layouts
  /\ pageEmptySpaces' = st.spaces
  /\ consoleErrors' = st.errors

\* calculateLayout, lines 199-203: no images
CalculateLayoutEmpty ==
  /\ pc = "idle"
  /\ Len(processedImages) = 0
  /\ pageLayouts' = EmptyInputLayout
  /\ pc' = "done"
  /\ passCount' = passCount + 1
  /\ UNCHANGED << Inputs, newPageLayouts, pageEmptySpaces, imgIdx,
                  consoleErrors, prevPageLayouts >>
  /\ UNCHANGED Background

\* calculateLayout, lines 205-211: the margin leaves no usable area
CalculateLayoutDegenerate ==
  /\ pc = "idle"
  /\ Len(processedImages) # 0
  /\ DegenerateUsableArea
  /\ pageLayouts' = DegenerateLayout
  /\ pc' = "done"
  /\ passCount' = passCount + 1
  /\ UNCHANGED << Inputs, newPageLayouts, pageEmptySpaces, imgIdx,
                  consoleErrors, prevPageLayouts >>
  /\ UNCHANGED Background

\* calculateLayout, lines 213-231: fresh working state and the first page
CalculateLayoutBegin ==
  /\ pc = "idle"
  /\ Len(processedImages) # 0
  /\ ~DegenerateUsableArea
  /\ SetPassState(AddNewPage(NoPages))
  /\ imgIdx' = 1
  /\ pc' = "loop"
  /\ passCount' = passCount + 1
  /\ UNCHANGED << Inputs, pageLayouts, prevPageLayouts >>
  /\ UNCHANGED Background

CurrentImage == processedImages[imgIdx]

InLoop == pc = "loop" /\ imgIdx <= Len(processedImages)

NextImgIdxStoppingAtDrop ==
  IF ~IsSkipped(CurrentImage)
     /\ FindBestFit(pageEmptySpaces, CurrentImage) = <<>>
     /\ ~Fits(CurrentImage, FullPageSpace)
  THEN Len(processedImages) + 1
  ELSE imgIdx + 1

\* a return inside the forEach callback ends that iteration only
NextImgIdx == imgIdx + 1

LoopStep ==
  /\ LET st == ProcessImage(PassState, CurrentImage) IN SetPassState(st)
  /\ imgIdx' = NextImgIdx
  /\ UNCHANGED << Inputs, pageLayouts, pc, passCount, prevPageLayouts >>
  /\ UNCHANGED Background

\* forEach iteration, lines 234-241: non-positive size, return
SkipImage ==
  /\ InLoop
  /\ IsSkipped(CurrentImage)
  /\ LoopStep

\* forEach iteration, lines 264-314: a fitting space exists
PlaceImage ==
  /\ InLoop
  /\ ~IsSkipped(CurrentImage)
  /\ FindBestFit(pageEmptySpaces, CurrentImage) # <<>>
  /\ LoopStep

\* forEach iteration, lines 316-363: no space fits, the new page does
PlaceImageOnNewPage ==
  /\ InLoop
  /\ ~IsSkipped(CurrentImage)
  /\ FindBestFit(pageEmptySpaces, CurrentImage) = <<>>
  /\ Fits(CurrentImage, FullPageSpace)
  /\ LoopStep

\* forEach iteration, lines 316-364: no space fits, nor does the new page
DropImage ==
  /\ InLoop
  /\ ~IsSkipped(CurrentImage)
  /\ FindBestFit(pageEmptySpaces, CurrentImage) = <<>>
  /\ ~Fits(CurrentImage, FullPageSpace)
  /\ LoopStep

\* line 367: setPageLayouts(newPageLayouts)
CommitLayout ==
  /\ pc = "loop"
  /\ imgIdx > Len(processedImages)
  /\ pageLayouts' = newPageLayouts
  /\ pc' = "done"
  /\ UNCHANGED << Inputs, newPageLayouts, pageEmptySpaces, imgIdx,
                  consoleErrors, passCount, prevPageLayouts >>
  /\ UNCHANGED Background

\* lines 414-420: the debounce timer fires and calls calculateLayout again
\* on the inputs the effect at lines 433-435 already laid out
DebounceFires ==
  /\ pc = "done"
  /\ passCount < MaxPasses
  /\ prevPageLayouts' = pageLayouts
  /\ pc' = "idle"
  /\ UNCHANGED << Inputs, pageLayouts, newPageLayouts, pageEmptySpaces,
                  imgIdx, consoleErrors, passCount >>
  /\ UNCHANGED Background

Next ==
  \/ CalculateLayoutEmpty
  \/ CalculateLayoutDegenerate
  \/ CalculateLayoutBegin
  \/ SkipImage
  \/ PlaceImage
  \/ PlaceImageOnNewPage
  \/ DropImage
  \/ CommitLayout
  \/ DebounceFires

Spec == Init /\ [][Next]_vars

\* ------------------------------------ the row-based calculateLayout variant
\* (second PrintPage component of src/src/app/page.tsx, lines 855-926)
LETTER_WIDTH_IN == 85
LETTER_HEIGHT_IN == 110

usablePageWidthIn == LETTER_WIDTH_IN - 2 * marginIn
usablePageHeightIn == LETTER_HEIGHT_IN - 2 * marginIn

\* newPageLayouts[0] = { photos: [] }; currentPageIndex = 0; currentX, ...
RowStart ==
  [ layouts |-> << EmptyPage >>, currentPageIndex |-> 1,
    currentX |-> marginIn * RENDER_DPI, currentY |-> marginIn * RENDER_DPI,
    currentRowMaxHeight |-> 0 ]

Max(a, b) == IF a >= b THEN a ELSE b

\* currentX + printWidthPx > (marginIn + usablePageWidthIn) * RENDER_DPI:
\* start the next row
WrapRow(st, img) ==
  IF st.currentX + img.printWidthPx > (marginIn + usablePageWidthIn) * RENDER_DPI
  THEN [ st EXCEPT !.currentX = marginIn * RENDER_DPI,
                   !.currentY = @ + st.currentRowMaxHeight + spacingPx,
                   !.currentRowMaxHeight = 0 ]
  ELSE st

\* currentY + printHeightPx > (marginIn + usablePageHeightIn) * RENDER_DPI:
\* start the next page
WrapPage(st, img) ==
  IF st.currentY + img.printHeightPx > (marginIn + usablePageHeightIn) * RENDER_DPI
  THEN [ st EXCEPT !.layouts = Append(@, EmptyPage),
                   !.currentPageIndex = @ + 1,
                   !.currentX = marginIn * RENDER_DPI,
                   !.currentY = marginIn * RENDER_DPI,
                   !.currentRowMaxHeight = 0 ]
  ELSE st

\* currentPage.photos.push({...}); currentX += printWidthPx + spacingPx; ...
PushInRow(st, img) ==
  [ st EXCEPT
      !.layouts[st.currentPageIndex].photos =
          Append(@, [ id |-> img.id, printWidthPx |-> img.printWidthPx,
                      printHeightPx |-> img.printHeightPx,
                      printXPx |-> st.currentX, printYPx |-> st.currentY ]),
      !.currentX = @ + img.printWidthPx + spacingPx,
      !.currentRowMaxHeight = Max(@, img.printHeightPx) ]

\* one iteration of uploadedImages.forEach in the row-based variant
RowStep(st, img) ==
  IF img.printWidthPx <= 0 \/ img.printHeightPx <= 0 THEN st
  ELSE PushInRow(WrapPage(WrapRow(st, img), img), img)

RECURSIVE RowLoop(_, _, _)
RowLoop(st, imgs, i) ==
  IF i > Len(imgs) THEN st ELSE RowLoop(RowStep(st, imgs[i]), imgs, i + 1)

\* the layout the row-based calculateLayout commits
RowLayoutOf(imgs) ==
  IF Len(imgs) = 0 THEN <<>>
  ELSE IF usablePageWidthIn <= 0 \/ usablePageHeightIn <= 0 THEN << EmptyPage >>
  ELSE RowLoop(RowStart, imgs, 1).layouts

\* the row-based calculateLayout, run to completion
RowCalculateLayout ==
  /\ pc = "idle"
  /\ pageLayouts' = RowLayoutOf(processedImages)
  /\ pc' = "done"
  /\ UNCHANGED << Inputs, newPageLayouts, pageEmptySpaces, imgIdx,
                  consoleErrors, passCount, prevPageLayouts >>
  /\ UNCHANGED Background

RowSpec == Init /\ [][RowCalculateLayout]_vars

\* ------------------------------------------------- the image list handlers
UnsortedMerge(images) == images

RECURSIVE InsertByArea(_, _)
InsertByArea(sorted, img) ==
  IF Len(sorted) = 0 THEN << img >>
  ELSE IF OriginalArea(sorted[1]) >= OriginalArea(img)
       THEN << sorted[1] >> \o InsertByArea(Tail(sorted), img)
       ELSE << img >> \o sorted

RECURSIVE SortFrom(_, _, _)
SortFrom(sorted, images, i) ==
  IF i > Len(images) THEN sorted
  ELSE SortFrom(InsertByArea(sorted, images[i]), images, i + 1)

\* .sort((a, b) => b.originalWidthPx * b.originalHeightPx - a.original...):
\* descending by original pixel area, equal areas keep their order
SortByArea(images) == SortFrom(<<>>, images, 1)

\* the images a batch of files resolves to: targetPrintDiagonalIn: null
UploadBatches ==
  UNION { [ 1..n -> { UploadedImage(d, <<>>) : d \in OrigDims } ] :
          n \in 0..MaxBatch }

\* the sizes the per-image slider commits, and null from its reset
OverrideChoices == { o \in DiagonalOverrides : o = <<>> \/ o[1] \in 10..100 }

RemoveAt(images, i) == SubSeq(images, 1, i - 1) \o SubSeq(images, i + 1, Len(images))

UIInit ==
  /\ uploadedImages = <<>>
  /\ globalTargetSizeIn = DEFAULT_DIAGONAL_IN
  /\ processedImages = <<>>
  /\ marginIn = DEFAULT_MARGIN_IN
  /\ gapIn = DEFAULT_GAP_IN
  /\ pageLayouts = <<>>
  /\ newPageLayouts = <<>>
  /\ pageEmptySpaces = <<>>
  /\ imgIdx = 0
  /\ pc = "idle"
  /\ consoleErrors = <<>>
  /\ passCount = 0
  /\ prevPageLayouts = <<>>
  /\ timers = <<>>
  /\ isLoading = FALSE
  /\ isConverting = FALSE
  /\ batches = <<>>

\* setUploadedImages re-renders: processedImages is recomputed and the
\* effect at lines 433-435 is due
SetUploadedImages(images) ==
  /\ pc = "done"
  /\ uploadedImages' = images
  /\ processedImages' = ProcessedImagesOf(images)
  /\ pc' = "idle"
  /\ UNCHANGED << globalTargetSizeIn, marginIn, gapIn, pageLayouts,
                  newPageLayouts, pageEmptySpaces, imgIdx, consoleErrors,
                  passCount, prevPageLayouts >>
  /\ UNCHANGED Background

\* handleImageUpload: no files clears the list, else the loaded images are
\* appended and the list sorted
HandleImageUpload ==
  \E batch \in UploadBatches :
    /\ Len(uploadedImages) + Len(batch) <= MaxImages
    /\ SetUploadedImages(IF Len(batch) = 0 THEN <<>>
                         ELSE SortByArea(uploadedImages \o batch))

\* handleRemoveImage: prev.filter((img) => img.id !== id)
HandleRemoveImage ==
  \E i \in 1..Len(uploadedImages) :
    SetUploadedImages(RemoveAt(uploadedImages, i))

\* handleClearAll
HandleClearAll == SetUploadedImages(<<>>)

\* updateSelectedImageSize: the selected image gets the override, in place
UpdateSelectedImageSize ==
  \E i \in 1..Len(uploadedImages), sizeInInches \in OverrideChoices :
    SetUploadedImages([ uploadedImages EXCEPT
                          ![i].targetPrintDiagonalIn = sizeInInches ])

\* the effect at lines 433-435: calculateLayout runs to completion on the
\* current processedImages
LayoutEffect ==
  /\ pc = "idle"
  /\ pageLayouts' = LayoutOf(processedImages)
  /\ pc' = "done"
  /\ UNCHANGED << Inputs, newPageLayouts, pageEmptySpaces, imgIdx,
                  consoleErrors, passCount, prevPageLayouts >>
  /\ UNCHANGED Background

UINext ==
  \/ HandleImageUpload
  \/ HandleRemoveImage
  \/ HandleClearAll
  \/ UpdateSelectedImageSize
  \/ LayoutEffect

UISpec == UIInit /\ [][UINext]_vars

\* ----------------------------------------------------------------- claims
Pages(layouts) == 1..Len(layouts)
PhotosOn(layouts, p) == layouts[p].photos
Right(photo) == photo.printXPx + photo.printWidthPx
Bottom(photo) == photo.printYPx + photo.printHeightPx

PlacedIds(layouts) ==
  UNION { { layouts[p].photos[k].id : k \in 1..Len(layouts[p].photos) } :
          p \in Pages(layouts) }

InteriorsOverlap(a, b) ==
  /\ a.printXPx < Right(b)
  /\ b.printXPx < Right(a)
  /\ a.printYPx < Bottom(b)
  /\ b.printYPx < Bottom(a)

SeparatedBy(a, b, g) ==
  \/ Right(a) + g <= b.printXPx
  \/ Right(b) + g <= a.printXPx
  \/ Bottom(a) + g <= b.printYPx
  \/ Bottom(b) + g <= a.printYPx

PassDone == pc = "done"

SomePageHasTwoPhotos ==
  \E p \in Pages(pageLayouts) : Len(PhotosOn(pageLayouts, p)) >= 2

\* C1: after a layout pass no two photos placed on the same page have
\* rectangles whose interiors overlap.
C1_NoOverlap ==
  PassDone =>
    \A p \in Pages(pageLayouts) :
      \A i, j \in 1..Len(PhotosOn(pageLayouts, p)) :
        i < j => ~InteriorsOverlap(PhotosOn(pageLayouts, p)[i],
                                   PhotosOn(pageLayouts, p)[j])

C1_Witness == PassDone /\ SomePageHasTwoPhotos

\* C2: after a layout pass every placed photo lies entirely within
\* [margin, pageWidth - margin] x [margin, pageHeight - margin].
C2_Containment ==
  PassDone =>
    \A p \in Pages(pageLayouts) :
      \A i \in 1..Len(PhotosOn(pageLayouts, p)) :
        LET photo == PhotosOn(pageLayouts, p)[i]
        IN /\ photo.printXPx >= marginIn * RENDER_DPI
           /\ photo.printYPx >= marginIn * RENDER_DPI
           /\ Right(photo) <= (PAPER_WIDTH_IN - marginIn) * RENDER_DPI
           /\ Bottom(photo) <= (PAPER_HEIGHT_IN - marginIn) * RENDER_DPI

C2_Witness == PassDone /\ marginIn > 0 /\ SomePageHasTwoPhotos /\ Len(pageLayouts) >= 2

\* C3: after a layout pass any two photos on the same page are separated by
\* at least the configured gap along the horizontal or the vertical axis.
C3_GapHonored ==
  PassDone =>
    \A p \in Pages(pageLayouts) :
      \A i, j \in 1..Len(PhotosOn(pageLayouts, p)) :
        i < j => SeparatedBy(PhotosOn(pageLayouts, p)[i],
                             PhotosOn(pageLayouts, p)[j], spacingPx)

C3_Witness == PassDone /\ gapIn > 0 /\ SomePageHasTwoPhotos

\* the images of positive size that fit the usable area of a fresh page in
\* neither orientation
FitsFreshPageEitherWay(img) ==
  \/ Fits(img, FullPageSpace)
  \/ (img.printHeightPx <= FullPageSpace.w /\ img.printWidthPx <= FullPageSpace.h)

Unplaceable ==
  { i \in 1..Len(processedImages) :
      ~IsSkipped(processedImages[i]) /\ ~FitsFreshPageEitherWay(processedImages[i]) }

\* what the pass reports beyond the layout: its console.error lines
DropCount == Len(consoleErrors)

\* C4: an item that fits a fresh page in neither orientation is never
\* placed and is always reported to the caller as dropped (stated for the
\* settings the sliders can reach, with a positive usable area).
C4_DropAccounting ==
  (PassDone /\ WithinSliderRange /\ ~DegenerateUsableArea) =>
    /\ Unplaceable \cap PlacedIds(pageLayouts) = {}
    /\ DropCount >= Cardinality(Unplaceable)

C6_NoEmptyPages ==
  (PassDone /\ WithinSliderRange /\ ~DegenerateUsableArea) =>
    \A p \in Pages(pageLayouts) : Len(PhotosOn(pageLayouts, p)) > 0

\* C7: two passes run with identical inputs produce identical layouts; no
\* state is carried from one pass to the next.
C7_Deterministic ==
  (PassDone /\ passCount >= 2) => pageLayouts = prevPageLayouts

C7_Witness ==
  PassDone /\ passCount >= 2 /\ Len(pageLayouts) >= 2 /\ SomePageHasTwoPhotos

Front(seq) == SubSeq(seq, 1, Len(seq) - 1)

\* C8: the layout of S with an item x of positive resolved size added at the
\* end has at least as many pages as the layout of S.
C8_MonotonicPageGrowth ==
  (PassDone /\ Len(processedImages) > 0
            /\ ~IsSkipped(processedImages[Len(processedImages)])) =>
    Len(pageLayouts) >= Len(LayoutOf(Front(processedImages)))

C8_Witness ==
  /\ PassDone
  /\ Len(processedImages) >= 2
  /\ ~IsSkipped(processedImages[Len(processedImages)])
  /\ Len(pageLayouts) > Len(LayoutOf(Front(processedImages)))
  /\ Len(LayoutOf(Front(processedImages))) >= 2

\* fixed-point rounding allowed on a squared length: a few parts in Precision
SquareTolerance(length) == ((length * length) \div Precision) * 4 + 4

\* C9: for every item whose effective target diagonal d is > 0 the resolved
\* size satisfies printWidth^2 + printHeight^2 = d^2 within rounding, and
\* printHeight / printWidth equals originalHeight / originalWidth.
C9_DiagonalPreserved ==
  \A i \in 1..Len(uploadedImages) :
    TargetDiagonalIn(uploadedImages[i]) > 0 =>
      LET img == processedImages[i]
          orig == uploadedImages[i]
          diagonalPx == TargetDiagonalIn(orig) * RENDER_DPI
      IN /\ Abs(img.printWidthPx * img.printWidthPx
                  + img.printHeightPx * img.printHeightPx
                  - diagonalPx * diagonalPx) <= SquareTolerance(diagonalPx)
         /\ Abs(img.printHeightPx * orig.originalWidthPx
                  - img.printWidthPx * orig.originalHeightPx)
               * Precision
              <= 4 * (img.printWidthPx * orig.originalHeightPx + Precision)

C9_Witness ==
  \E i \in 1..Len(uploadedImages) :
    /\ TargetDiagonalIn(uploadedImages[i]) > 0
    /\ uploadedImages[i].originalWidthPx # uploadedImages[i].originalHeightPx
    /\ processedImages[i].printWidthPx > 0

\* C10: an item whose effective target diagonal is <= 0 resolves to width 0
\* and height 0 and is silently skipped: its iteration places nothing,
\* creates no page, leaves every free-rectangle list unchanged and reports
\* nothing.
C10_ZeroDiagonalSkipped ==
  [][ (InLoop /\ TargetDiagonalIn(uploadedImages[imgIdx]) <= 0) =>
        /\ CurrentImage.printWidthPx = 0
        /\ CurrentImage.printHeightPx = 0
        /\ imgIdx' = imgIdx + 1
        /\ UNCHANGED << newPageLayouts, pageEmptySpaces, consoleErrors >> ]_vars

C10_Witness ==
  /\ PassDone
  /\ \E i \in 1..Len(uploadedImages) :
       /\ TargetDiagonalIn(uploadedImages[i]) <= 0
       /\ uploadedImages[i].targetPrintDiagonalIn # <<>>
       /\ i \notin PlacedIds(pageLayouts)
  /\ PlacedIds(pageLayouts) # {}

\* the photo placed for image i, as a set (empty when i is on no page)
PhotosOf(layouts, i) ==
  UNION { { layouts[p].photos[k] : k \in { n \in 1..Len(layouts[p].photos) :
                                             layouts[p].photos[n].id = i } } :
          p \in Pages(layouts) }

FitsRotated(img, space) ==
  img.printHeightPx <= space.w /\ img.printWidthPx <= space.h

\* the images that fit a fresh page only when turned by 90 degrees
FitsOnlyRotated ==
  { i \in 1..Len(processedImages) :
      LET img == processedImages[i]
      IN /\ ~IsSkipped(img)
         /\ img.printWidthPx # img.printHeightPx
         /\ ~Fits(img, FullPageSpace)
         /\ FitsRotated(img, FullPageSpace) }

\* C11: an item with width # height whose unrotated orientation fits no
\* free rectangle (none on a fresh page, hence none at all) but whose rotated
\* orientation fits a fresh page is placed with isRotated = true and with
\* width and height swapped; it is not dropped (stated for the settings the
\* sliders can reach).
C11_RotatedPlacement ==
  (PassDone /\ WithinSliderRange /\ ~DegenerateUsableArea) =>
    \A i \in FitsOnlyRotated :
      \E photo \in PhotosOf(pageLayouts, i) :
        /\ "isRotated" \in DOMAIN photo
        /\ photo.isRotated
        /\ photo.printWidthPx = processedImages[i].printHeightPx
        /\ photo.printHeightPx = processedImages[i].printWidthPx

Min(a, b) == IF a <= b THEN a ELSE b

\* score = min(rect.w - candidate.width, rect.h - candidate.height)
ShortSideLeft(space, width, height) == Min(space.w - width, space.h - height)

\* the short-side scores of every fitting (page, rectangle, orientation)
FittingScores(spaces, img) ==
  UNION { UNION { ( IF Fits(img, spaces[p][k])
                    THEN { ShortSideLeft(spaces[p][k], img.printWidthPx,
                                         img.printHeightPx) }
                    ELSE {} )
                  \cup
                  ( IF img.printWidthPx # img.printHeightPx
                       /\ FitsRotated(img, spaces[p][k])
                    THEN { ShortSideLeft(spaces[p][k], img.printHeightPx,
                                         img.printWidthPx) }
                    ELSE {} ) : k \in 1..Len(spaces[p]) } :
          p \in 1..Len(spaces) }

\* the photo a step has just pushed for the current image
JustPlaced == PhotosOf(newPageLayouts', CurrentImage.id)

\* the free rectangles of the page the current image's best fit is on
ChosenPageSpaces ==
  pageEmptySpaces[FindBestFit(pageEmptySpaces, CurrentImage)[1].pageIdx]

FitsExistingPage ==
  InLoop /\ ~IsSkipped(CurrentImage)
         /\ FindBestFit(pageEmptySpaces, CurrentImage) # <<>>

\* C12: when an item fits a free rectangle of an existing page, the
\* rectangle and orientation it is placed in minimise
\* min(rect.w - width, rect.h - height) over all fitting triples.
C12_BestShortSideFit ==
  [][ (FitsExistingPage /\ WithinSliderRange) =>
        \E photo \in JustPlaced :
          \E k \in 1..Len(ChosenPageSpaces) :
            /\ ChosenPageSpaces[k].x = photo.printXPx
            /\ ChosenPageSpaces[k].y = photo.printYPx
            /\ \A score \in FittingScores(pageEmptySpaces, CurrentImage) :
                 ShortSideLeft(ChosenPageSpaces[k], photo.printWidthPx,
                               photo.printHeightPx) <= score ]_vars

\* resolved width <= usableWidth and resolved height <= usableHeight
FitsUsableArea(img) ==
  img.printWidthPx <= usablePageWidthPx /\ img.printHeightPx <= usablePageHeightPx

\* the images of positive size that fit no fresh page as resolved
TooLarge ==
  { i \in 1..Len(processedImages) :
      ~IsSkipped(processedImages[i]) /\ ~FitsUsableArea(processedImages[i]) }

\* the images of positive size that come after a too-large one and fit
FittingAfterTooLarge ==
  { j \in 1..Len(processedImages) :
      /\ ~IsSkipped(processedImages[j])
      /\ FitsUsableArea(processedImages[j])
      /\ \E i \in TooLarge : i < j }

\* C13: an unplaceable item does not abort the pass: its iteration places
\* nothing and hands over to the next item, and when the pass commits every
\* following item that fits has been placed.
C13_DropDoesNotAbort ==
  [][ /\ (InLoop /\ imgIdx \in TooLarge) =>
            /\ pc' = "loop"
            /\ imgIdx' = imgIdx + 1
            /\ PlacedIds(newPageLayouts') = PlacedIds(newPageLayouts)
      /\ (pc = "loop" /\ pc' = "done") =>
            FittingAfterTooLarge \subseteq PlacedIds(pageLayouts') ]_vars

C13_Witness ==
  /\ PassDone
  /\ FittingAfterTooLarge # {}
  /\ FittingAfterTooLarge \subseteq PlacedIds(pageLayouts)
  /\ TooLarge \cap PlacedIds(pageLayouts) = {}

\* the places <<page, position>> at which image i appears in a layout
PlacesOf(layouts, i) ==
  UNION { { << p, k >> : k \in { n \in 1..Len(layouts[p].photos) :
                                   layouts[p].photos[n].id = i } } :
          p \in Pages(layouts) }

PlacedAtMostOnce(layouts) ==
  \A i \in 1..Len(processedImages) : Cardinality(PlacesOf(layouts, i)) <= 1

\* image ids are the images' positions in the supplied sequence
InSuppliedOrder(layouts) ==
  \A p \in Pages(layouts) :
    \A k, m \in 1..Len(layouts[p].photos) :
      k < m => layouts[p].photos[k].id < layouts[p].photos[m].id

\* C14: every input item is placed at most once across all pages, and the
\* photos of each page appear in the order the items were supplied; this
\* holds of the layout under construction and of the committed layout.
C14_PlacedOnceInOrder ==
  /\ PlacedAtMostOnce(newPageLayouts) /\ InSuppliedOrder(newPageLayouts)
  /\ PlacedAtMostOnce(pageLayouts) /\ InSuppliedOrder(pageLayouts)

C14_Witness ==
  /\ PassDone
  /\ Cardinality(PlacedIds(pageLayouts)) = 3
  /\ Len(pageLayouts) = 2

SpacesOverlap(a, b) ==
  /\ a.x < b.x + b.w
  /\ b.x < a.x + a.w
  /\ a.y < b.y + b.h
  /\ b.y < a.y + a.h

SpaceOverlapsPhoto(space, photo) ==
  /\ space.x < Right(photo)
  /\ photo.printXPx < space.x + space.w
  /\ space.y < Bottom(photo)
  /\ photo.printYPx < space.y + space.h

WithinUsableArea(space) ==
  /\ space.w > 0
  /\ space.h > 0
  /\ space.x >= FullPageSpace.x
  /\ space.y >= FullPageSpace.y
  /\ space.x + space.w <= FullPageSpace.x + FullPageSpace.w
  /\ space.y + space.h <= FullPageSpace.y + FullPageSpace.h

RECURSIVE SpacesArea(_)
SpacesArea(spaces) ==
  IF Len(spaces) = 0 THEN 0
  ELSE spaces[1].w * spaces[1].h + SpacesArea(Tail(spaces))

RECURSIVE PhotosArea(_)
PhotosArea(photos) ==
  IF Len(photos) = 0 THEN 0
  ELSE photos[1].printWidthPx * photos[1].printHeightPx + PhotosArea(Tail(photos))

\* the free rectangles of page p are disjoint from each other and from the
\* page's photos, and lie within the usable area
SpacesDisjoint(p) ==
  /\ \A k, m \in 1..Len(pageEmptySpaces[p]) :
       k < m => ~SpacesOverlap(pageEmptySpaces[p][k], pageEmptySpaces[p][m])
  /\ \A k \in 1..Len(pageEmptySpaces[p]) :
       /\ WithinUsableArea(pageEmptySpaces[p][k])
       /\ \A n \in 1..Len(newPageLayouts[p].photos) :
            ~SpaceOverlapsPhoto(pageEmptySpaces[p][k], newPageLayouts[p].photos[n])

\* disjoint pieces within the usable area cover it exactly when their areas
\* add up to its area
SpacesCoverRest(p) ==
  SpacesArea(pageEmptySpaces[p]) + PhotosArea(newPageLayouts[p].photos)
    = usablePageWidthPx * usablePageHeightPx

\* C15 as stated: at every step of a pass the free rectangles of each page
\* are pairwise non-overlapping, overlap no placed photo, and together cover
\* exactly the usable area not occupied by photos (checked for the settings
\* the sliders can reach).
C15_ExactTiling ==
  WithinSliderRange =>
    \A p \in Pages(newPageLayouts) : SpacesDisjoint(p) /\ SpacesCoverRest(p)

\* C15 amended: at every step of a pass the free rectangles of each page are
\* pairwise non-overlapping, overlap no placed photo and lie within the
\* usable area; when the gap is 0 they cover exactly the usable area not
\* occupied by photos.
C15_TilingUpToGap ==
  \A p \in Pages(newPageLayouts) :
    /\ SpacesDisjoint(p)
    /\ gapIn = 0 => SpacesCoverRest(p)

C15_Witness ==
  /\ pc = "loop"
  /\ gapIn = 0
  /\ \E p \in Pages(newPageLayouts) :
       Len(newPageLayouts[p].photos) >= 2 /\ Len(pageEmptySpaces[p]) >= 3

\* two free rectangles share one full edge exactly
ShareFullEdge(a, b) ==
  \/ /\ a.x = b.x
     /\ a.w = b.w
     /\ (a.y + a.h = b.y \/ b.y + b.h = a.y)
  \/ /\ a.y = b.y
     /\ a.h = b.h
     /\ (a.x + a.w = b.x \/ b.x + b.w = a.x)

\* C16: after every placement the affected page's free-rectangle list is at
\* a merge fixed point: no two free rectangles of a page share one full edge
\* exactly (the lists change only at placements; checked for the settings
\* the sliders can reach).
C16_MergeFixedPoint ==
  WithinSliderRange =>
    \A p \in 1..Len(pageEmptySpaces) :
      \A k, m \in 1..Len(pageEmptySpaces[p]) :
        k < m => ~ShareFullEdge(pageEmptySpaces[p][k], pageEmptySpaces[p][m])

PageAppended == Len(newPageLayouts') > Len(newPageLayouts)

\* C17: during a pass a page is appended only at a step where the current
\* item fits no free rectangle of any existing page; none is created while
\* the item fits one, and none before the first item is examined (checked
\* for the settings the sliders can reach).
C17_PageOnlyOnNoFit ==
  [][ (PageAppended /\ WithinSliderRange) =>
        /\ InLoop
        /\ ~IsSkipped(CurrentImage)
        /\ FindBestFit(pageEmptySpaces, CurrentImage) = <<>> ]_vars

\* C19: every item of positive resolved size whose resolved width and
\* height are within the usable width and height is on some page of the
\* committed layout: an item is dropped only if it does not fit the full
\* usable-area rectangle of a fresh page.
C19_FittingItemsPlaced ==
  PassDone =>
    \A i \in 1..Len(processedImages) :
      (~IsSkipped(processedImages[i]) /\ FitsUsableArea(processedImages[i]))
        => i \in PlacedIds(pageLayouts)

\* an item too wide for what the first page has left gets its own page
\* while another item is dropped
C19_Witness ==
  /\ PassDone
  /\ TooLarge # {}
  /\ \E i \in 1..Len(processedImages) :
       /\ FitsUsableArea(processedImages[i])
       /\ PlacesOf(pageLayouts, i) \cap { << p, 1 >> : p \in 2..Len(pageLayouts) } # {}

Range(seq) == { seq[k] : k \in 1..Len(seq) }

\* a step that places the current image, on an existing page or a new one
Placing ==
  InLoop /\ ~IsSkipped(CurrentImage)
         /\ (FindBestFit(pageEmptySpaces, CurrentImage) # <<>>
               \/ FitsUsableArea(CurrentImage))

PlacementPage ==
  IF FindBestFit(pageEmptySpaces, CurrentImage) # <<>>
  THEN FindBestFit(pageEmptySpaces, CurrentImage)[1].pageIdx
  ELSE Len(pageEmptySpaces) + 1

\* the free rectangles of the placement's page before the step
SpacesBefore ==
  IF PlacementPage <= Len(pageEmptySpaces)
  THEN Range(pageEmptySpaces[PlacementPage])
  ELSE { FullPageSpace }

\* the free rectangle the photo is put in: the one whose corner it takes
PlacementSpace ==
  CHOOSE space \in SpacesBefore :
    \E photo \in JustPlaced :
      space.x = photo.printXPx /\ space.y = photo.printYPx

\* the two rectangles the claim's guillotine cut leaves
GuillotinePieces(rect, width, height) ==
  LET requiredWidth == width + spacingPx
      requiredHeight == height + spacingPx
      leftoverW == rect.w - requiredWidth
      leftoverH == rect.h - requiredHeight
  IN IF rect.w > rect.h
     THEN { [ x |-> rect.x + requiredWidth, y |-> rect.y,
              w |-> leftoverW, h |-> rect.h ],
            [ x |-> rect.x, y |-> rect.y + requiredHeight,
              w |-> requiredWidth, h |-> leftoverH ] }
     ELSE { [ x |-> rect.x, y |-> rect.y + requiredHeight,
              w |-> rect.w, h |-> leftoverH ],
            [ x |-> rect.x + requiredWidth, y |-> rect.y,
              w |-> leftoverW, h |-> height ] }

BothLeftoversPositive(rect, img) ==
  rect.w - RequiredWidth(img) > 0 /\ rect.h - RequiredHeight(img) > 0

\* C20: a placement into a free rectangle with both leftovers positive
\* replaces it by the two rectangles of the guillotine cut: the full-height
\* strip to the right and the strip below the photo when rect.w > rect.h,
\* the full-width strip below and the strip right of the photo otherwise
\* (checked for the settings the sliders can reach).
C20_GuillotineSplit ==
  [][ (Placing /\ WithinSliderRange
         /\ BothLeftoversPositive(PlacementSpace, CurrentImage)) =>
        Range(pageEmptySpaces'[PlacementPage])
          = (SpacesBefore \ { PlacementSpace })
              \cup GuillotinePieces(PlacementSpace, CurrentImage.printWidthPx,
                                    CurrentImage.printHeightPx) ]_vars

\* C18: the item list handed to the layout engine is always sorted by
\* descending original pixel area, after any sequence of upload batches,
\* single-image removals, per-image size overrides and clear-all.
C18_SortedByArea ==
  /\ SortedByArea(uploadedImages)
  /\ Len(processedImages) = Len(uploadedImages)
  /\ \A i \in 1..Len(processedImages) : processedImages[i].id = i

\* a list built by two uploads, the second adding the largest image, with an
\* override set, is handed to the layout
C18_Witness ==
  /\ pc = "done"
  /\ Len(uploadedImages) = 3
  /\ Len(pageLayouts) >= 1
  /\ OriginalArea(uploadedImages[1]) > OriginalArea(uploadedImages[2])
  /\ OriginalArea(uploadedImages[2]) > OriginalArea(uploadedImages[3])
  /\ uploadedImages[2].targetPrintDiagonalIn # <<>>

LeftoverW(rect, img) == rect.w - RequiredWidth(img)
LeftoverH(rect, img) == rect.h - RequiredHeight(img)

\* the free rectangles of the placement's page after the step
SpacesAfter == Range(pageEmptySpaces'[PlacementPage])

\* C21: a placement into a free rectangle with exactly one positive
\* leftover leaves a single new rectangle: {x+requiredWidth, y, leftoverW,
\* rect.h} when only leftoverW > 0, {x, y+requiredHeight, rect.w, leftoverH}
\* when only leftoverH > 0 (checked for the settings the sliders can reach).
C21_SingleLeftover ==
  [][ (Placing /\ WithinSliderRange) =>
        LET rect == PlacementSpace
            img == CurrentImage
        IN /\ (LeftoverW(rect, img) > 0 /\ LeftoverH(rect, img) <= 0) =>
                SpacesAfter = (SpacesBefore \ { rect })
                   \cup { [ x |-> rect.x + RequiredWidth(img), y |-> rect.y,
                            w |-> LeftoverW(rect, img), h |-> rect.h ] }
           /\ (LeftoverH(rect, img) > 0 /\ LeftoverW(rect, img) <= 0) =>
                SpacesAfter = (SpacesBefore \ { rect })
                   \cup { [ x |-> rect.x, y |-> rect.y + RequiredHeight(img),
                            w |-> rect.w, h |-> LeftoverH(rect, img) ] } ]_vars

\* the position of the consumed free rectangle in its page's list
PlacementIndex ==
  CHOOSE k \in 1..Len(pageEmptySpaces[PlacementPage]) :
    pageEmptySpaces[PlacementPage][k] = PlacementSpace

\* C22: a placement on an existing page changes only that page: the
\* consumed free rectangle is replaced at its list index by 0, 1 or 2 new
\* rectangles (0 when neither leftover is positive), the page's other free
\* rectangles keep value and order, the photo is appended to the page's
\* photos, and the lists and photos of all other pages are unchanged.
C22_PlacementFrame ==
  [][ FitsExistingPage =>
        LET p == PlacementPage
            k == PlacementIndex
            before == pageEmptySpaces[p]
            after == pageEmptySpaces'[p]
            added == Len(after) - Len(before) + 1
        IN /\ Len(pageEmptySpaces') = Len(pageEmptySpaces)
           /\ Len(newPageLayouts') = Len(newPageLayouts)
           /\ added \in 0..2
           /\ (LeftoverW(before[k], CurrentImage) <= 0
                 /\ LeftoverH(before[k], CurrentImage) <= 0) => added = 0
           /\ \A j \in 1..(k - 1) : after[j] = before[j]
           /\ \A j \in (k + 1)..Len(before) : after[j + added - 1] = before[j]
           /\ \A j \in k..(k + added - 1) : after[j] \notin Range(before)
           /\ Len(newPageLayouts'[p].photos) = Len(newPageLayouts[p].photos) + 1
           /\ \A j \in 1..Len(newPageLayouts[p].photos) :
                newPageLayouts'[p].photos[j] = newPageLayouts[p].photos[j]
           /\ \A q \in 1..Len(pageEmptySpaces) :
                q # p => /\ pageEmptySpaces'[q] = pageEmptySpaces[q]
                         /\ newPageLayouts'[q] = newPageLayouts[q] ]_vars

\* a later placement has gone back to the first page, past another page
C22_Witness ==
  /\ pc = "loop"
  /\ Len(newPageLayouts) >= 2
  /\ Len(newPageLayouts[1].photos) >= 2
  /\ Len(newPageLayouts[2].photos) >= 1
  /\ newPageLayouts[1].photos[2].id > newPageLayouts[2].photos[1].id
  /\ Len(pageEmptySpaces[1]) >= 2

\* {x: margin, y: margin, w: pageWidth - 2*margin, h: pageHeight - 2*margin}
WholeUsableArea ==
  [ x |-> marginIn * RENDER_DPI, y |-> marginIn * RENDER_DPI,
    w |-> (PAPER_WIDTH_IN - 2 * marginIn) * RENDER_DPI,
    h |-> (PAPER_HEIGHT_IN - 2 * marginIn) * RENDER_DPI ]

FirstPhotoAtMargin(layouts) ==
  \A p \in Pages(layouts) :
    Len(layouts[p].photos) > 0 =>
      LET photo == layouts[p].photos[1]
      IN /\ photo.printXPx = marginIn * RENDER_DPI
         /\ photo.printYPx = marginIn * RENDER_DPI
         /\ photo.printWidthPx = processedImages[photo.id].printWidthPx
         /\ photo.printHeightPx = processedImages[photo.id].printHeightPx

\* C23: every page starts with exactly one free rectangle, the whole usable
\* area (a page without photos still has exactly that list, as only
\* placements change a list), and the first photo of any page is at
\* (margin, margin) with its unrotated resolved size.
C23_FreshPage ==
  /\ \A p \in Pages(newPageLayouts) :
       Len(newPageLayouts[p].photos) = 0 =>
         pageEmptySpaces[p] = << WholeUsableArea >>
  /\ FirstPhotoAtMargin(newPageLayouts)
  /\ FirstPhotoAtMargin(pageLayouts)

C23_Witness ==
  /\ PassDone
  /\ marginIn > 0
  /\ Len(pageLayouts) >= 3
  /\ \A p \in Pages(pageLayouts) : Len(pageLayouts[p].photos) > 0

\* the page a step has just pushed a photo on
ChosenPage ==
  CHOOSE p \in 1..Len(newPageLayouts) :
    Len(newPageLayouts'[p].photos) > Len(newPageLayouts[p].photos)

\* the index of the free rectangle whose corner the pushed photo has taken
ChosenIndex ==
  CHOOSE k \in 1..Len(pageEmptySpaces[ChosenPage]) :
    \E photo \in JustPlaced :
      /\ pageEmptySpaces[ChosenPage][k].x = photo.printXPx
      /\ pageEmptySpaces[ChosenPage][k].y = photo.printYPx

\* the fitting free rectangles, as <<page, index>>
FittingPlaces(spaces, img) ==
  UNION { { << p, k >> : k \in { n \in 1..Len(spaces[p]) :
                                  img.printWidthPx <= spaces[p][n].w
                                    /\ img.printHeightPx <= spaces[p][n].h } } :
          p \in 1..Len(spaces) }

\* the code's score of a free rectangle: its area
AreaScore(spaces, place) == spaces[place[1]][place[2]].w * spaces[place[1]][place[2]].h

\* the fitting free rectangles of best (smallest) score
BestPlaces(spaces, img) ==
  { b \in FittingPlaces(spaces, img) :
      \A o \in FittingPlaces(spaces, img) :
        AreaScore(spaces, b) <= AreaScore(spaces, o) }

\* C24: when several fitting free rectangles have the same best score, the
\* one chosen is the first in enumeration order: lowest page index, then
\* lowest rectangle index within that page.
C24_FirstOfTies ==
  [][ FitsExistingPage =>
        /\ << ChosenPage, ChosenIndex >> \in BestPlaces(pageEmptySpaces, CurrentImage)
        /\ \A b \in BestPlaces(pageEmptySpaces, CurrentImage) :
             \/ ChosenPage < b[1]
             \/ (ChosenPage = b[1] /\ ChosenIndex <= b[2]) ]_vars

\* the first image was too large and left two untouched pages; a later one,
\* fitting both equally, is on the first
C24_Witness ==
  /\ PassDone
  /\ 1 \in TooLarge
  /\ Len(pageLayouts) = 2
  /\ Len(pageLayouts[1].photos) >= 1
  /\ Len(pageLayouts[2].photos) = 0

\* pageLayouts.length > 0 && (pageLayouts[0]?.photos?.length ?? 0) > 0
isPrintEnabled ==
  Len(pageLayouts) > 0 /\ Len(pageLayouts[1].photos) > 0

\* C26: after any layout pass printing is enabled exactly when the layout
\* holds a photo: the first page has a photo if and only if some page has.
C26_PrintEnabledIffPhotos ==
  PassDone => (isPrintEnabled <=> PlacedIds(pageLayouts) # {})

\* the first image was dropped, leaving the first page empty for the next
C26_Witness ==
  /\ PassDone
  /\ isPrintEnabled
  /\ 1 \in TooLarge
  /\ Len(pageLayouts) >= 2
  /\ Len(pageLayouts[2].photos) > 0

\* where image i is in a layout and as what: <<page, position, photo>>
OutcomeOf(layouts, i) ==
  UNION { { << p, k, layouts[p].photos[k] >> :
              k \in { n \in 1..Len(layouts[p].photos) :
                        layouts[p].photos[n].id = i } } :
          p \in Pages(layouts) }

\* C28: each item of S has the same outcome (page, position, size, or not
\* placed) in the layout of S followed by x as in the layout of S:
\* appending an item never moves or removes an earlier placement.
C28_PrefixStable ==
  (PassDone /\ Len(processedImages) > 0) =>
    \A i \in 1..(Len(processedImages) - 1) :
      OutcomeOf(pageLayouts, i) = OutcomeOf(LayoutOf(Front(processedImages)), i)

\* the appended item opened a page of its own behind two earlier photos
C28_Witness ==
  /\ PassDone
  /\ Len(processedImages) = 3
  /\ Cardinality(PlacedIds(pageLayouts)) = 3
  /\ Len(pageLayouts) > Len(LayoutOf(Front(processedImages)))

\* C25: in the row-based variant every placed photo lies within
\* [margin, pageWidth - margin] x [margin, pageHeight - margin] and an item
\* larger than the usable area is not placed, for items with target
\* diagonal > 0 (checked for the settings the sliders can reach).
C25_RowContainment ==
  (PassDone /\ WithinSliderRange) =>
    /\ \A p \in Pages(pageLayouts) :
         \A i \in 1..Len(PhotosOn(pageLayouts, p)) :
           LET photo == PhotosOn(pageLayouts, p)[i]
           IN /\ photo.printXPx >= marginIn * RENDER_DPI
              /\ photo.printYPx >= marginIn * RENDER_DPI
              /\ Right(photo) <= (LETTER_WIDTH_IN - marginIn) * RENDER_DPI
              /\ Bottom(photo) <= (LETTER_HEIGHT_IN - marginIn) * RENDER_DPI
    /\ TooLarge \cap PlacedIds(pageLayouts) = {}

\* ------------------------------------------------- the debounce effect
\* The effect at lines 414-427 runs after every render in which
\* calculateLayout has a new identity, that is after processedImages, marginIn
\* or gapIn changed. A pending timer is a record of what its callback closes
\* over: the calculateLayout of the render that armed it, hence that render's
\* processedImages, marginIn and gapIn and the layout they give. `ref` marks
\* the timer whose id debounceTimeoutRef.current holds.
Closure ==
  [ processedImages |-> processedImages,
    marginIn        |-> marginIn,
    gapIn           |-> gapIn,
    layout          |-> LayoutOf(processedImages),
    ref             |-> TRUE ]

Unref(pending) == [ k \in 1..Len(pending) |-> [ pending[k] EXCEPT !.ref = FALSE ] ]

IsNotRef(timer) == ~timer.ref

\* setTimeout without the clearTimeout before it
ArmWithoutClear(pending, closure) == Append(Unref(pending), closure)

\* the cleanup of the previous run and lines 415-417 clear the timer the ref
\* holds, if it is still pending; lines 418-420 arm the new one and store its id
ClearThenArm(pending, closure) ==
  Append(SelectSeq(pending, IsNotRef), closure)

\* the values the three sliders of the sidebar commit
DiagonalChoices ==
  { d \in 10..100 : d = DEFAULT_DIAGONAL_IN \/ <<d>> \in DiagonalOverrides }
MarginChoices == { m \in MarginValues : m \in 0..10 }
GapChoices == { g \in GapValues : g \in 0..10 }

\* a slider commit re-renders: a same-value commit is no state change
SetGlobalTargetSizeIn ==
  \E value \in DiagonalChoices \ {globalTargetSizeIn} :
    /\ pc = "done"
    /\ globalTargetSizeIn' = value
    /\ processedImages' =
         [ k \in 1..Len(uploadedImages) |->
             ProcessedImage(uploadedImages[k], value) ]
    /\ pc' = "idle"
    /\ UNCHANGED << uploadedImages, marginIn, gapIn, pageLayouts,
                    newPageLayouts, pageEmptySpaces, imgIdx, consoleErrors,
                    passCount, prevPageLayouts >>
    /\ UNCHANGED Background

SetMarginIn ==
  \E value \in MarginChoices \ {marginIn} :
    /\ pc = "done"
    /\ marginIn' = value
    /\ pc' = "idle"
    /\ UNCHANGED << uploadedImages, processedImages, globalTargetSizeIn, gapIn,
                    pageLayouts, newPageLayouts, pageEmptySpaces, imgIdx,
                    consoleErrors, passCount, prevPageLayouts >>
    /\ UNCHANGED Background

SetGapIn ==
  \E value \in GapChoices \ {gapIn} :
    /\ pc = "done"
    /\ gapIn' = value
    /\ pc' = "idle"
    /\ UNCHANGED << uploadedImages, processedImages, globalTargetSizeIn,
                    marginIn, pageLayouts, newPageLayouts, pageEmptySpaces,
                    imgIdx, consoleErrors, passCount, prevPageLayouts >>
    /\ UNCHANGED Background

\* the effects of one render, in source order: the debounce effect (cleanup,
\* clear, arm) and the immediate calculateLayout of lines 433-435
RenderEffects ==
  /\ pc = "idle"
  /\ timers' = ClearThenArm(timers, Closure)
  /\ pageLayouts' = LayoutOf(processedImages)
  /\ pc' = "done"
  /\ UNCHANGED << Inputs, newPageLayouts, pageEmptySpaces, imgIdx,
                  consoleErrors, passCount, prevPageLayouts, isLoading,
                  isConverting, batches >>

\* a pending timer's 300 ms elapse: its calculateLayout commits the layout of
\* the inputs it closed over. It may elapse while a state update is waiting
\* for its render.
TimerFires ==
  \E k \in 1..Len(timers) :
    /\ pageLayouts' = timers[k].layout
    /\ timers' = RemoveAt(timers, k)
    /\ UNCHANGED << Inputs, newPageLayouts, pageEmptySpaces, imgIdx, pc,
                    consoleErrors, passCount, prevPageLayouts, isLoading,
                    isConverting, batches >>

\* the image list changes by upload, removal and clearing; the per-image
\* slider changes it through the same setUploadedImages and is left to UISpec
DebounceNext ==
  \/ HandleImageUpload
  \/ HandleRemoveImage
  \/ HandleClearAll
  \/ SetGlobalTargetSizeIn
  \/ SetMarginIn
  \/ SetGapIn
  \/ RenderEffects
  \/ TimerFires

DebounceSpec == UIInit /\ [][DebounceNext]_vars

\* the timer's closure is the calculateLayout of the current inputs
ClosesOverCurrentInputs(timer) ==
  /\ timer.processedImages = processedImages
  /\ timer.marginIn = marginIn
  /\ timer.gapIn = gapIn

Batch(files, heic, fails) ==
  [ images |-> files, heic |-> heic, converting |-> FALSE, fails |-> fails ]

RECURSIVE InFlightFrom(_, _)
InFlightFrom(pending, k) ==
  IF k > Len(pending) THEN 0
  ELSE Len(pending[k].images) + InFlightFrom(pending, k + 1)

InFlight == InFlightFrom(batches, 1)

FailuresSoFar ==
  Len(consoleErrors) + Cardinality({ k \in 1..Len(batches) : batches[k].fails })

\* the file lists handed to handleImageUpload: a larger and a smaller image
\* are enough to tell the order of the merged list
UploadFiles ==
  UNION { [ 1..n -> { UploadedImage(<<4, 3>>, <<>>),
                      UploadedImage(<<1, 1>>, <<>>) } ] : n \in 0..MaxBatch }

\* Promise.allSettled instead of Promise.all: the files that loaded are kept
SettledImagesPartial(prev, batch) ==
  IF batch.fails THEN SortByArea(prev \o Front(batch.images))
  ELSE SortByArea(prev \o batch.images)

\* lines 163-172: Promise.all resolves with every image of the batch and the
\* updater merges and sorts them, or rejects and the catch leaves the list
SettledImages(prev, batch) ==
  IF batch.fails THEN prev ELSE SortByArea(prev \o batch.images)

\* handleImageUpload up to the start of processFiles. The file input is not
\* disabled while a batch is loading, so a call can follow a call. As for the
\* other handlers, the effects of the last render have run when it is called.
StartUpload ==
  \E files \in UploadFiles, heic \in BOOLEAN, fails \in BOOLEAN :
    /\ pc = "done"
    /\ Len(uploadedImages) + InFlight + Len(files) <= MaxImages
    /\ fails => FailuresSoFar < MaxFailures
    /\ IF Len(files) = 0
       THEN /\ ~heic /\ ~fails
            /\ uploadedImages' = <<>>
            /\ processedImages' = <<>>
            /\ pc' = "idle"
            /\ UNCHANGED << isLoading, isConverting, batches >>
       ELSE /\ isLoading' = TRUE
            /\ isConverting' = FALSE
            /\ batches' = Append(batches, Batch(files, heic, fails))
            /\ UNCHANGED << uploadedImages, processedImages, pc >>
    /\ UNCHANGED << globalTargetSizeIn, marginIn, gapIn, pageLayouts,
                    newPageLayouts, pageEmptySpaces, imgIdx, consoleErrors,
                    passCount, prevPageLayouts, timers >>

\* after the import of heic2any, files.map starts every conversion of the
\* batch: setIsConverting(true)
ConvertHeic ==
  \E k \in 1..Len(batches) :
    /\ pc = "done"
    /\ batches[k].heic
    /\ ~batches[k].converting
    /\ isConverting' = TRUE
    /\ batches' = [ batches EXCEPT ![k].converting = TRUE ]
    /\ UNCHANGED << Inputs, pageLayouts, newPageLayouts, pageEmptySpaces,
                    imgIdx, pc, consoleErrors, passCount, prevPageLayouts,
                    timers, isLoading >>

\* Promise.all settles: try, catch (console.error) and finally
FinishUpload ==
  \E k \in 1..Len(batches) :
    /\ pc = "done"
    /\ batches[k].heic => batches[k].converting
    /\ uploadedImages' = SettledImages(uploadedImages, batches[k])
    /\ processedImages' =
         ProcessedImagesOf(SettledImages(uploadedImages, batches[k]))
    /\ pc' = IF batches[k].fails THEN pc ELSE "idle"
    /\ consoleErrors' = IF batches[k].fails
                        THEN Append(consoleErrors, "Error loading images:")
                        ELSE consoleErrors
    /\ isLoading' = FALSE
    /\ isConverting' = FALSE
    /\ batches' = RemoveAt(batches, k)
    /\ UNCHANGED << globalTargetSizeIn, marginIn, gapIn, pageLayouts,
                    newPageLayouts, pageEmptySpaces, imgIdx, passCount,
                    prevPageLayouts, timers >>

\* the Clear All button is disabled={!isPrintEnabled || isLoading}
ClickClearAll ==
  /\ isPrintEnabled
  /\ ~isLoading
  /\ HandleClearAll

UploadNext ==
  \/ StartUpload
  \/ ConvertHeic
  \/ FinishUpload
  \/ ClickClearAll
  \/ LayoutEffect

UploadSpec == UIInit /\ [][UploadNext]_vars

CountOf(seq, x) == Cardinality({ k \in 1..Len(seq) : seq[k] = x })

\* the step in which the k-th batch in flight settles
Settles(k) == Len(batches') < Len(batches) /\ batches' = RemoveAt(batches, k)

C30_LoadingWhilePending == batches # <<>> => isLoading

====
